---------------------------- MODULE Spec2Model ----------------------------
(***************************************************************************)
(* SubjectPropertyAnalyzer (src/src/analyzers/subject_property_analyzer.py) *)
(* as a state machine.                                                     *)
(*                                                                         *)
(* A cell of the data frame is a number, the float NaN or a string.        *)
(* Numbers are exact rationals n/d (d is 1 or 2): the only arithmetic that *)
(* leaves the integers is the mean of the two middle values of a median.   *)
(* A string is a sequence of one-character strings.  The data frame is a   *)
(* function from column name to the sequence of the column's cells.        *)
(***************************************************************************)
EXTENDS Integers, Sequences, FiniteSets, TLC

VARIABLES
    df,        \* the caller's DataFrame, shared by reference with self.df
    headers,   \* self.headers: canonical field name -> column name
    subject,   \* self.subject: << >> before any analyzer exists, else <<record>>
    op,        \* the method that returned last
    results,   \* the dict get_comparison_results built during the last call: << >> or <<dict>>
    ret,       \* the value returned by the last method: << >> or <<value>>
    first_clean \* history: << >>, or <<the price_clean column the first __init__ produced>>

vars == <<df, headers, subject, op, results, ret, first_clean>>

(***************************************************************************)
(* Bounds of the model.                                                    *)
(***************************************************************************)
MaxRows == 3
MaxMatchRows == 2
MaxVal == 3

(***************************************************************************)
(* Values.                                                                 *)
(***************************************************************************)
Num(v) == [kind |-> "num", n |-> v, d |-> 1]
Frac(a, b) == [kind |-> "num", n |-> a, d |-> b]
NaN == [kind |-> "nan"]
Str(s) == [kind |-> "str", s |-> s]

IsNaN(x) == x.kind = "nan"

\* x > y on floats; any comparison with NaN is False
Gt(x, y) == /\ x.kind = "num"
            /\ y.kind = "num"
            /\ x.n * y.d > y.n * x.d

\* x == y on floats; any comparison with NaN is False
Eq(x, y) == /\ x.kind = "num"
            /\ y.kind = "num"
            /\ x.n * y.d = y.n * x.d

Abs(i) == IF i < 0 THEN -i ELSE i

\* abs(x - y) <= tol on floats, tol an integer
AbsDiffLe(x, y, tol) == /\ x.kind = "num"
                        /\ y.kind = "num"
                        /\ Abs(x.n * y.d - y.n * x.d) <= tol * x.d * y.d

Range(s) == {s[i] : i \in 1..Len(s)}

(***************************************************************************)
(* Strings and pd.to_numeric(..., errors='coerce').                        *)
(***************************************************************************)
DigitChars == <<"0", "1", "2", "3", "4", "5", "6", "7", "8", "9">>

DigitOf(c) == (CHOOSE i \in 1..Len(DigitChars) : DigitChars[i] = c) - 1

IsDigits(s) == Len(s) > 0 /\ \A i \in 1..Len(s) : s[i] \in Range(DigitChars)

RECURSIVE DigitsValue(_)
DigitsValue(s) ==
    IF Len(s) = 0 THEN 0
    ELSE Len(DigitChars) * DigitsValue(SubSeq(s, 1, Len(s) - 1)) + DigitOf(s[Len(s)])

RECURSIVE DigitsOf(_)
DigitsOf(v) ==
    IF v < Len(DigitChars) THEN <<DigitChars[v + 1]>>
    ELSE Append(DigitsOf(v \div Len(DigitChars)), DigitChars[(v % Len(DigitChars)) + 1])

\* Series.astype(str), one cell: str(value)
AsStr(cell) ==
    CASE cell.kind = "str" -> cell.s
      [] cell.kind = "nan" -> <<"n", "a", "n">>
      [] cell.kind = "num" -> DigitsOf(cell.n)

\* Series.str.replace(ch, ''), one cell: every occurrence of ch removed
StrReplace(s, ch) == SelectSeq(s, LAMBDA c : c # ch)

\* pd.to_numeric(errors='coerce'), one cell: a number stays, a string of
\* digits parses, anything else (and the text "nan") is NaN
ToNumeric(cell) ==
    CASE cell.kind = "num" -> cell
      [] cell.kind = "nan" -> NaN
      [] cell.kind = "str" -> IF IsDigits(cell.s) THEN Num(DigitsValue(cell.s)) ELSE NaN

\* Series.dtype == object: the column holds at least one Python string
IsObject(col) == \E i \in 1..Len(col) : col[i].kind = "str"

NRows(d) == Len(d[CHOOSE c \in DOMAIN d : TRUE])

(***************************************************************************)
(* process_data                                                            *)
(***************************************************************************)
CleanPrice(cell) == ToNumeric(Str(StrReplace(StrReplace(AsStr(cell), "$"), ",")))

PriceClean(d, h) ==
    LET col == d[h.price]
    IN  IF IsObject(col)
        THEN [i \in 1..Len(col) |-> CleanPrice(col[i])]
        ELSE [i \in 1..Len(col) |-> ToNumeric(col[i])]

SetColumn(d, name, col) ==
    [c \in DOMAIN d \cup {name} |-> IF c = name THEN col ELSE d[c]]

\* mutant: an existing derived column is reused with its missing values zeroed
ProcessData_FillOnReuse(d, h) ==
    IF "price_clean" \in DOMAIN d /\ h.price # "price_clean"
    THEN SetColumn(d, "price_clean",
                   [i \in 1..NRows(d) |->
                       IF IsNaN(d["price_clean"][i]) THEN Num(0) ELSE d["price_clean"][i]])
    ELSE SetColumn(d, "price_clean", PriceClean(d, h))

ProcessData(d, h) == SetColumn(d, "price_clean", PriceClean(d, h))

(***************************************************************************)
(* Series.median(): NaN skipped; NaN when nothing is left                  *)
(***************************************************************************)
Mean2(a, b) == IF (a + b) % 2 = 0 THEN Num((a + b) \div 2) ELSE Frac(a + b, 2)

\* mutant: missing values count as zero instead of being skipped
Median_FillZero(col) ==
    LET filled == [i \in 1..Len(col) |-> IF IsNaN(col[i]) THEN Num(0) ELSE col[i]]
        sorted == SortSeq(filled, LAMBDA a, b : Gt(b, a))
        k      == Len(sorted)
    IN  IF k = 0 THEN NaN
        ELSE IF k % 2 = 1 THEN sorted[(k + 1) \div 2]
        ELSE Mean2(sorted[k \div 2].n, sorted[(k \div 2) + 1].n)

\* mutant: an even count takes the lower middle value
Median_LowerMiddle(col) ==
    LET valid  == SelectSeq(col, LAMBDA x : ~IsNaN(x))
        sorted == SortSeq(valid, LAMBDA a, b : Gt(b, a))
        k      == Len(sorted)
    IN  IF k = 0 THEN NaN ELSE sorted[(k + 1) \div 2]

Median(col) ==
    LET valid  == SelectSeq(col, LAMBDA x : ~IsNaN(x))
        sorted == SortSeq(valid, LAMBDA a, b : Gt(b, a))
        k      == Len(sorted)
    IN  IF k = 0 THEN NaN
        ELSE IF k % 2 = 1 THEN sorted[(k + 1) \div 2]
        ELSE Mean2(sorted[k \div 2].n, sorted[(k \div 2) + 1].n)

\* df[mask][column]
Masked(col, mask) ==
    LET F[i \in 0..Len(col)] ==
            IF i = 0 THEN << >>
            ELSE IF mask[i] THEN Append(F[i - 1], col[i]) ELSE F[i - 1]
    IN  F[Len(col)]

SQFT_TOLERANCE == 5

NeighborhoodMedian(d) == Median(d["price_clean"])

\* mutant: the sqft tolerance is exclusive
ExactMask_StrictTolerance(d, h, s) ==
    [i \in 1..NRows(d) |->
        /\ Eq(ToNumeric(d[h.beds][i]), s.beds)
        /\ Eq(ToNumeric(d[h.baths][i]), s.baths)
        /\ AbsDiffLe(ToNumeric(d[h.sqft][i]), s.sqft, SQFT_TOLERANCE - 1)]

\* mutant: the exact tier forgets the beds comparison
ExactMask_NoBeds(d, h, s) ==
    [i \in 1..NRows(d) |->
        /\ Eq(ToNumeric(d[h.baths][i]), s.baths)
        /\ AbsDiffLe(ToNumeric(d[h.sqft][i]), s.sqft, SQFT_TOLERANCE)]

ExactMask(d, h, s) ==
    [i \in 1..NRows(d) |->
        /\ Eq(ToNumeric(d[h.beds][i]), s.beds)
        /\ Eq(ToNumeric(d[h.baths][i]), s.baths)
        /\ AbsDiffLe(ToNumeric(d[h.sqft][i]), s.sqft, SQFT_TOLERANCE)]

ExactModelsMedian(d, h, s) ==
    LET matches == Masked(d["price_clean"], ExactMask(d, h, s))
    IN  IF Len(matches) > 0 THEN Median(matches) ELSE NaN

\* mutant: the beds column is compared without numeric coercion
SimilarMask_RawCompare(d, h, s) ==
    [i \in 1..NRows(d) |-> Eq(d[h.beds][i], s.beds)]

SimilarMask(d, h, s) ==
    [i \in 1..NRows(d) |-> Eq(ToNumeric(d[h.beds][i]), s.beds)]

SimilarModelsMedian(d, h, s) ==
    LET matches == Masked(d["price_clean"], SimilarMask(d, h, s))
    IN  IF Len(matches) > 0 THEN Median(matches) ELSE NaN

ComparisonResults(d, h, s) ==
    [neighborhood_median   |-> NeighborhoodMedian(d),
     exact_models_median   |-> ExactModelsMedian(d, h, s),
     similar_models_median |-> SimilarModelsMedian(d, h, s),
     subject_price         |-> s.price]

\* mutant: PASS up to two higher comparisons
Decide_PassAtTwo(r) ==
    LET comps == <<r.neighborhood_median, r.exact_models_median, r.similar_models_median>>
        valid_comps == SelectSeq(comps, LAMBDA c : ~IsNaN(c))
        higher_count == Cardinality({i \in 1..Len(valid_comps) :
                                        Gt(valid_comps[i], r.subject_price)})
    IN  IF Len(valid_comps) = 0 THEN "INVESTIGATE"
        ELSE IF higher_count >= Len(valid_comps) THEN "BUY"
        ELSE IF higher_count <= 2 THEN "PASS"
        ELSE "INVESTIGATE"

\* mutant: BUY needs more higher comparisons than there are valid ones
Decide_StrictBuy(r) ==
    LET comps == <<r.neighborhood_median, r.exact_models_median, r.similar_models_median>>
        valid_comps == SelectSeq(comps, LAMBDA c : ~IsNaN(c))
        higher_count == Cardinality({i \in 1..Len(valid_comps) :
                                        Gt(valid_comps[i], r.subject_price)})
    IN  IF Len(valid_comps) = 0 THEN "INVESTIGATE"
        ELSE IF higher_count > Len(valid_comps) THEN "BUY"
        ELSE IF higher_count <= 1 THEN "PASS"
        ELSE "INVESTIGATE"

\* get_decision after its call of get_comparison_results
Decide(r) ==
    LET comps == <<r.neighborhood_median, r.exact_models_median, r.similar_models_median>>
        valid_comps == SelectSeq(comps, LAMBDA c : ~IsNaN(c))
        higher_count == Cardinality({i \in 1..Len(valid_comps) :
                                        Gt(valid_comps[i], r.subject_price)})
    IN  IF Len(valid_comps) = 0 THEN "INVESTIGATE"
        ELSE IF higher_count >= Len(valid_comps) THEN "BUY"
        ELSE IF higher_count <= 1 THEN "PASS"
        ELSE "INVESTIGATE"


(***************************************************************************)
(* Inputs.                                                                 *)
(***************************************************************************)
MappedHeaders(priceCol) ==
    [price |-> priceCol, beds |-> "Bed", baths |-> "Bath", sqft |-> "SqFt"]

SeqsUpTo(S, n) == UNION {[1..k -> S] : k \in 0..n}

\* the caller's DataFrame, its price column named priceCol
Frame(rows, priceCol) ==
    [c \in {priceCol, "Bed", "Bath", "SqFt"} |->
        [i \in 1..Len(rows) |->
            CASE c = priceCol -> rows[i].price
              [] c = "Bed"    -> rows[i].beds
              [] c = "Bath"   -> rows[i].baths
              [] c = "SqFt"   -> rows[i].sqft]]

Rows == [price : {Str(<<"$", "1", ",", "0">>), Str(<<"N">>), Num(2)},
         beds  : {Str(<<"3">>), Num(2)},
         baths : {Num(2)},
         sqft  : {Num(15), Num(16)}]

Subjects == [beds : {Num(3)}, baths : {Num(2)}, sqft : {Num(10)}, price : {Num(5)}]

MatchRows == [price : {Num(4)},
              beds  : {Str(<<"3">>), Num(2), Str(<<"N">>)},
              baths : {Num(2), Str(<<"N">>)},
              sqft  : {Num(15), Num(16), Str(<<"N">>)}]

MatchSubjects == [beds : {Num(3)}, baths : {Num(1), Num(2)},
                  sqft : {Num(10), Num(21)}, price : {Num(5)}]

ReuseRows == [price : {Str(<<"$", "1", ",", "0">>), Str(<<"N">>), Num(2)},
              beds  : {Num(3), Str(<<"2">>)},
              baths : {Num(2)},
              sqft  : {Num(15)}]

ReuseSubjects == [beds : {Num(2), Num(3)}, baths : {Num(2)}, sqft : {Num(10)},
                  price : {Num(5)}]

ScenarioPrices == <<300000, 310000, 320000, 330000, 340000>>

ScenarioFrames ==
    {Frame([i \in 1..Len(ScenarioPrices) |->
               [price |-> Num(ScenarioPrices[i]), beds |-> b[i],
                baths |-> Num(2), sqft |-> Num(1500)]], "Sale Amount") :
        b \in [1..Len(ScenarioPrices) -> {Num(2), Num(3)}]}

ScenarioSubjects == [beds : {Num(3), Num(4)}, baths : {Num(2)}, sqft : {Num(1500)},
                     price : {Num(305000)}]

MedianVals == {NaN} \cup {Num(v) : v \in 1..MaxVal}
                    \cup {Frac(2 * v + 1, 2) : v \in 1..(MaxVal - 1)}

DecisionInputs == [neighborhood_median   : MedianVals,
                   exact_models_median   : MedianVals,
                   similar_models_median : MedianVals,
                   subject_price         : {Num(v) : v \in 1..MaxVal}]

(***************************************************************************)
(* Operations.                                                             *)
(***************************************************************************)
InitWith(frames, priceCol) ==
    /\ headers = MappedHeaders(priceCol)
    /\ df \in frames
    /\ subject = << >>
    /\ op = "none"
    /\ results = << >>
    /\ ret = << >>
    /\ first_clean = << >>

Frames(c) == {Frame(rows, c) : rows \in SeqsUpTo(Rows, MaxRows)}

Init == InitWith(Frames("Sale Amount"), "Sale Amount")

\* __init__(df, mapped_headers, subject_property), process_data included
Construct(s) ==
    /\ subject' = <<s>>
    /\ df' = ProcessData(df, headers)
    /\ op' = IF first_clean = << >> THEN "__init__" ELSE "__init__ (frame reused)"
    /\ results' = << >>
    /\ ret' = << >>
    /\ first_clean' = IF first_clean = << >> THEN <<df'["price_clean"]>> ELSE first_clean
    /\ UNCHANGED headers

GetNeighborhoodMedian ==
    /\ subject # << >>
    /\ op' = "get_neighborhood_median"
    /\ ret' = <<NeighborhoodMedian(df)>>
    /\ results' = << >>
    /\ UNCHANGED <<df, headers, subject, first_clean>>

\* mutant: the numeric coercion of the beds column is stored back onto the frame
GetExactModelsMedian_Caching ==
    /\ subject # << >>
    /\ op' = "get_exact_models_median"
    /\ ret' = <<ExactModelsMedian(df, headers, subject[1])>>
    /\ df' = SetColumn(df, headers.beds,
                       [i \in 1..NRows(df) |-> ToNumeric(df[headers.beds][i])])
    /\ results' = << >>
    /\ UNCHANGED <<headers, subject, first_clean>>

GetExactModelsMedian ==
    /\ subject # << >>
    /\ op' = "get_exact_models_median"
    /\ ret' = <<ExactModelsMedian(df, headers, subject[1])>>
    /\ results' = << >>
    /\ UNCHANGED <<df, headers, subject, first_clean>>

GetSimilarModelsMedian ==
    /\ subject # << >>
    /\ op' = "get_similar_models_median"
    /\ ret' = <<SimilarModelsMedian(df, headers, subject[1])>>
    /\ results' = << >>
    /\ UNCHANGED <<df, headers, subject, first_clean>>

GetComparisonResults ==
    /\ subject # << >>
    /\ op' = "get_comparison_results"
    /\ results' = <<ComparisonResults(df, headers, subject[1])>>
    /\ ret' = results'
    /\ UNCHANGED <<df, headers, subject, first_clean>>

GetDecision ==
    /\ subject # << >>
    /\ op' = "get_decision"
    /\ results' = <<ComparisonResults(df, headers, subject[1])>>
    /\ ret' = <<Decide(results'[1])>>
    /\ UNCHANGED <<df, headers, subject, first_clean>>

Queries ==
    \/ GetNeighborhoodMedian
    \/ GetExactModelsMedian
    \/ GetSimilarModelsMedian
    \/ GetComparisonResults
    \/ GetDecision

Next ==
    \/ \E s \in Subjects : Construct(s)
    \/ Queries

Spec == Init /\ [][Next]_vars

\* the matcher on every kind of beds/baths/sqft cell
MatchFrames(c) == {Frame(rows, c) : rows \in SeqsUpTo(MatchRows, MaxMatchRows)}

InitMatch == InitWith(MatchFrames("Sale Amount"), "Sale Amount")

NextMatch ==
    \/ \E s \in MatchSubjects : Construct(s)
    \/ Queries

SpecMatch == InitMatch /\ [][NextMatch]_vars

\* one frame handed to several analyzers; the price column may itself be
\* named price_clean
ReuseFrames(c) == {Frame(rows, c) : rows \in SeqsUpTo(ReuseRows, MaxRows)}

InitReuse == \E c \in {"Sale Amount", "price_clean"} : InitWith(ReuseFrames(c), c)

NextReuse ==
    \/ \E s \in ReuseSubjects : Construct(s)
    \/ Queries

SpecReuse == InitReuse /\ [][NextReuse]_vars

\* the five-sale scenario
InitScenario == InitWith(ScenarioFrames, "Sale Amount")

NextScenario ==
    \/ \E s \in ScenarioSubjects : Construct(s)
    \/ Queries

SpecScenario == InitScenario /\ [][NextScenario]_vars

\* get_decision as a function of the comparison dict alone
InitDecision ==
    /\ headers = MappedHeaders("Sale Amount")
    /\ df = Frame(<< >>, "Sale Amount")
    /\ subject = << >>
    /\ op = "get_comparison_results"
    /\ results \in {<<r>> : r \in DecisionInputs}
    /\ ret = results
    /\ first_clean = << >>

DecideOnResults ==
    /\ op = "get_comparison_results"
    /\ results # << >>
    /\ op' = "get_decision"
    /\ ret' = <<Decide(results[1])>>
    /\ UNCHANGED <<df, headers, subject, results, first_clean>>

NextDecision == DecideOnResults

SpecDecision == InitDecision /\ [][NextDecision]_vars

(***************************************************************************)
(* Properties.                                                             *)
(***************************************************************************)
QueryOps == {"get_neighborhood_median", "get_exact_models_median",
             "get_similar_models_median", "get_comparison_results", "get_decision"}

MedianFields == {"neighborhood_median", "exact_models_median", "similar_models_median"}

Valid(x) == x.kind = "num"

\* n: the number of non-missing medians of a comparison dict
NValid(r) == Cardinality({f \in MedianFields : Valid(r[f])})

\* higher: the number of non-missing medians strictly above the subject price
NHigher(r) ==
    Cardinality({f \in MedianFields :
                    /\ Valid(r[f])
                    /\ r[f].n * r.subject_price.d > r.subject_price.n * r[f].d})

RuleLabel(n, higher) ==
    IF n = 0 THEN "INVESTIGATE"
    ELSE IF higher >= n THEN "BUY"
    ELSE IF higher <= 1 THEN "PASS"
    ELSE "INVESTIGATE"

\* C1: get_decision returns the label of the rule on n and higher:
\* INVESTIGATE when n = 0, else BUY when higher >= n, else PASS when
\* higher <= 1, else INVESTIGATE; so INVESTIGATE only for n = 0 or for
\* n = 3 with higher = 2, and never for n = 1 or n = 2.
C1_DecisionRule ==
    op = "get_decision" =>
        LET n == NValid(results[1])
            higher == NHigher(results[1])
        IN  /\ ret = <<RuleLabel(n, higher)>>
            /\ ret = <<"INVESTIGATE">> => (n = 0 \/ (n = 3 /\ higher = 2))
            /\ n \in {1, 2} => ret # <<"INVESTIGATE">>

C1_Witness ==
    /\ op = "get_decision"
    /\ NValid(results[1]) = 3
    /\ NHigher(results[1]) = 2
    /\ ret = <<"INVESTIGATE">>

\* the five-sale scenario with no row in either match tier
ScenarioNoMatch ==
    /\ subject # << >>
    /\ \A i \in 1..NRows(df) :
          /\ ~Eq(ToNumeric(df[headers.beds][i]), subject[1].beds)
    /\ results # << >>
    /\ results[1].neighborhood_median = Num(320000)
    /\ results[1].exact_models_median = NaN
    /\ results[1].similar_models_median = NaN

\* C2 as stated: in the five-sale scenario (prices 300000..340000, subject
\* price 305000, no row matching the subject) the neighborhood median 320000
\* is the only valid comparison and get_decision returns PASS.
C2_ScenarioPass ==
    (op = "get_decision" /\ \A i \in 1..NRows(df) :
                               ~Eq(ToNumeric(df[headers.beds][i]), subject[1].beds))
        => (ScenarioNoMatch /\ NValid(results[1]) = 1 /\ NHigher(results[1]) = 1
            /\ ret = <<"PASS">>)

\* C2 amended: in the same scenario the neighborhood median 320000 is the only
\* valid comparison (n = 1, higher = 1) and get_decision returns BUY.
C2_ScenarioBuy ==
    (op = "get_decision" /\ \A i \in 1..NRows(df) :
                               ~Eq(ToNumeric(df[headers.beds][i]), subject[1].beds))
        => (ScenarioNoMatch /\ NValid(results[1]) = 1 /\ NHigher(results[1]) = 1
            /\ ret = <<"BUY">>)

C2_Witness ==
    /\ op = "get_decision"
    /\ ScenarioNoMatch
    /\ subject[1].price = Num(305000)
    /\ ret = <<"BUY">>

AllMissing(col) == \A i \in 1..Len(col) : IsNaN(col[i])

ExactPrices == Masked(df["price_clean"], ExactMask(df, headers, subject[1]))

SimilarPrices == Masked(df["price_clean"], SimilarMask(df, headers, subject[1]))

\* C3: each median getter returns the missing marker (not zero, not an
\* error) when the rows it aggregates over are none or all have a missing
\* normalized price.
C3_MissingMarker ==
    /\ (op = "get_neighborhood_median" /\ AllMissing(df["price_clean"]))
          => ret = <<NaN>>
    /\ (op = "get_exact_models_median" /\ AllMissing(ExactPrices))
          => ret = <<NaN>>
    /\ (op = "get_similar_models_median" /\ AllMissing(SimilarPrices))
          => ret = <<NaN>>

C3_Witness ==
    /\ op = "get_similar_models_median"
    /\ Len(SimilarPrices) > 0
    /\ AllMissing(SimilarPrices)
    /\ \E i \in 1..NRows(df) : df[headers.price][i] = Str(<<"N">>)
    /\ ret = <<NaN>>

\* the non-missing normalized prices, as integers
ValidPrices == {i \in 1..NRows(df) : Valid(df["price_clean"][i])}

PriceAt(i) == df["price_clean"][i].n

\* the values with at most half of the valid prices below and at most half above
Middles ==
    {PriceAt(i) : i \in {j \in ValidPrices :
        /\ 2 * Cardinality({k \in ValidPrices : PriceAt(k) < PriceAt(j)})
              <= Cardinality(ValidPrices)
        /\ 2 * Cardinality({k \in ValidPrices : PriceAt(k) > PriceAt(j)})
              <= Cardinality(ValidPrices)}}

SetMin(S) == CHOOSE x \in S : \A y \in S : x <= y

SetMax(S) == CHOOSE x \in S : \A y \in S : x >= y

\* C4: get_neighborhood_median is the median of the non-missing normalized
\* prices (the middle value, or the mean of the two middle values), whatever
\* the subject; missing when there is no valid price.
C4_NeighborhoodMedian ==
    op = "get_neighborhood_median" =>
        IF ValidPrices = {} THEN ret = <<NaN>>
        ELSE /\ Valid(ret[1])
             /\ 2 * ret[1].n = ret[1].d * (SetMin(Middles) + SetMax(Middles))

C4_Witness ==
    /\ op = "get_neighborhood_median"
    /\ Cardinality(ValidPrices) = 2
    /\ Cardinality(ValidPrices) < NRows(df)
    /\ ret = <<Num(6)>>
    /\ subject[1].beds = Num(2)

\* the exact-match condition on the numeric-coerced cells of row i
RowIsExact(i) ==
    LET beds  == ToNumeric(df[headers.beds][i])
        baths == ToNumeric(df[headers.baths][i])
        sqft  == ToNumeric(df[headers.sqft][i])
    IN  /\ Valid(beds) /\ Valid(baths) /\ Valid(sqft)
        /\ beds.n = subject[1].beds.n
        /\ baths.n = subject[1].baths.n
        /\ sqft.n - subject[1].sqft.n <= 5
        /\ subject[1].sqft.n - sqft.n <= 5

\* C5: a row is in the exact tier iff its coerced beds and baths equal the
\* subject's and its coerced sqft is within 5 of the subject's, inclusive;
\* a row with a non-numeric beds, baths or sqft is never in it.
C5_ExactTier ==
    subject # << >> =>
        /\ \A i \in 1..NRows(df) :
              ExactMask(df, headers, subject[1])[i] <=> RowIsExact(i)
        /\ op = "get_exact_models_median" =>
              ret = <<IF \E i \in 1..NRows(df) : RowIsExact(i)
                      THEN Median([i \in 1..NRows(df) |->
                                     IF RowIsExact(i) THEN df["price_clean"][i] ELSE NaN])
                      ELSE NaN>>

C5_Witness ==
    /\ op = "get_exact_models_median"
    /\ ret = <<Num(4)>>
    /\ \E i, j \in 1..NRows(df) :
          /\ RowIsExact(i)
          /\ Abs(ToNumeric(df[headers.sqft][i]).n - subject[1].sqft.n) = 5
          /\ ~RowIsExact(j)
          /\ ToNumeric(df[headers.beds][j]) = subject[1].beds
          /\ ToNumeric(df[headers.baths][j]) = subject[1].baths
          /\ Valid(ToNumeric(df[headers.sqft][j]))
          /\ Abs(ToNumeric(df[headers.sqft][j]).n - subject[1].sqft.n) = 6

\* C6: every row of the exact tier is a row of the similar tier.
C6_ExactSubsetSimilar ==
    subject # << >> =>
        \A i \in 1..NRows(df) :
            ExactMask(df, headers, subject[1])[i] => SimilarMask(df, headers, subject[1])[i]

C6_Witness ==
    /\ subject # << >>
    /\ \E i, j \in 1..NRows(df) :
          /\ ExactMask(df, headers, subject[1])[i]
          /\ df[headers.beds][i].kind = "str"
          /\ SimilarMask(df, headers, subject[1])[j]
          /\ ~ExactMask(df, headers, subject[1])[j]

\* C7: only process_data changes the frame, and only by setting the derived
\* price column; no query method changes the frame, the field mapping or the
\* subject.
C7_FrameOnlyByProcessData ==
    [][/\ DOMAIN df' \subseteq DOMAIN df \cup {"price_clean"}
       /\ \A c \in DOMAIN df \ {"price_clean"} : df'[c] = df[c]
       /\ headers' = headers
       /\ op' \in QueryOps => (df' = df /\ subject' = subject)]_vars

C7_Witness ==
    /\ op = "get_exact_models_median"
    /\ DOMAIN df = {"Sale Amount", "Bed", "Bath", "SqFt", "price_clean"}
    /\ \E i \in 1..NRows(df) : df[headers.beds][i].kind = "str"
    /\ \E i \in 1..NRows(df) : df[headers.price][i].kind = "str"

\* C8: every construction after the first leaves the derived price column
\* equal, row by row, to what the first one produced, and every analyzer's
\* medians and decision are those of the frame the first construction made.
C8_ReuseIdempotent ==
    first_clean # << >> =>
        /\ df["price_clean"] = first_clean[1]
        /\ results # << >> =>
              results[1] = ComparisonResults(SetColumn(df, "price_clean", first_clean[1]),
                                             headers, subject[1])
        /\ op = "get_decision" =>
              ret[1] = Decide(ComparisonResults(SetColumn(df, "price_clean", first_clean[1]),
                                                headers, subject[1]))

C8_Witness ==
    /\ op = "__init__ (frame reused)"
    /\ \E i, j \in 1..NRows(df) :
          /\ IsNaN(first_clean[1][i])
          /\ first_clean[1][j] = Num(10)
    /\ df["price_clean"] = first_clean[1]

\* C10: validity is nested (exact valid => similar valid => neighborhood
\* valid), and the threshold-based INVESTIGATE needs a row of the exact tier
\* with a valid price.
C10_NestedValidity ==
    results # << >> =>
        /\ Valid(results[1].exact_models_median) => Valid(results[1].similar_models_median)
        /\ Valid(results[1].similar_models_median) => Valid(results[1].neighborhood_median)
        /\ NValid(results[1]) \in {0, 3}
              \/ /\ NValid(results[1]) = 1
                 /\ Valid(results[1].neighborhood_median)
              \/ /\ NValid(results[1]) = 2
                 /\ ~Valid(results[1].exact_models_median)
        /\ (op = "get_decision" /\ ret = <<"INVESTIGATE">> /\ NValid(results[1]) > 0)
              => \E i \in 1..NRows(df) :
                    /\ ExactMask(df, headers, subject[1])[i]
                    /\ Valid(df["price_clean"][i])

C10_Witness ==
    /\ op = "get_decision"
    /\ ret = <<"INVESTIGATE">>
    /\ NValid(results[1]) = 3
    /\ NHigher(results[1]) = 2

=============================================================================
